---- MODULE Spec2Model ----
(***************************************************************************)
(* Model of hiring_scanner.py: the per-host throttled fetcher polite_get,  *)
(* the three board parsers, the filter/score/dedupe post-processing, the   *)
(* SQLite persistence sink and the run_scan orchestrator.                  *)
(*                                                                         *)
(* Python str values are sequences of one-character strings, so that       *)
(* str.lower() and the substring test `k in s` are computed, not assumed.  *)
(* A URL is a record [host, path]: host is the sequence of dot-separated   *)
(* labels of the netloc (empty for a relative reference), path the         *)
(* sequence of '/'-separated segments.  Optional values (None) are         *)
(* sequences of length 0 or 1.  Time is counted in whole seconds.          *)
(* Fetched documents are well-typed: a JSON payload either fails to decode *)
(* or is a list of objects whose fields are strings or absent.             *)
(***************************************************************************)
EXTENDS Integers, Sequences, FiniteSets, TLC

----------------------------------------------------------------------------
(* Bounds of the model *)

\* number of URLs the discovery step may return for one scan
MaxUrls == 2
\* number of clock ticks (seconds) a process may live after import
MaxTicks == 1
\* number of times the script is run in a row against the same jobs.db
MaxRuns == 2
\* length of the posting lists handed to dedupe / upsert_jobs in SpecLib
MaxPosts == 2
\* number of direct calls of dedupe / upsert_jobs in SpecLib
MaxCalls == 2
\* number of polite_get calls the sequential caller of SpecSeq makes
MaxGets == 2

----------------------------------------------------------------------------
(* Configuration *)

ROLE_KEYWORDS ==
  << <<"S","e","n","i","o","r"," ","S","a","l","e","s"," ","S","t","r","a","t","e","g","y">>,
     <<"S","a","l","e","s"," ","S","t","r","a","t","e","g","y">>,
     <<"S","a","l","e","s"," ","O","p","e","r","a","t","i","o","n","s">>,
     <<"G","l","o","b","a","l"," ","S","a","l","e","s"," ","O","p","e","r","a","t","i","o","n","s">>,
     <<"R","e","v","e","n","u","e"," ","O","p","e","r","a","t","i","o","n","s">>,
     <<"R","e","v","O","p","s">>,
     <<"S","a","l","e","s"," ","I","n","t","e","l","l","i","g","e","n","c","e">>,
     <<"S","a","l","e","s"," ","I","n","s","i","g","h","t","s">>,
     <<"S","a","l","e","s"," ","I","n","s","i","g","h","t","s"," ","&"," ","A","n","a","l","y","t","i","c","s">>,
     <<"S","a","l","e","s"," ","E","n","a","b","l","e","m","e","n","t">>,
     <<"S","a","l","e","s"," ","P","l","a","n","n","i","n","g"," ","&"," ","O","p","e","r","a","t","i","o","n","s">>,
     <<"S","a","l","e","s"," ","T","r","a","n","s","f","o","r","m","a","t","i","o","n">>,
     <<"G","o","-","t","o","-","M","a","r","k","e","t"," ","S","t","r","a","t","e","g","y">>,
     <<"G","T","M"," ","S","t","r","a","t","e","g","y">>,
     <<"S","a","l","e","s"," ","E","x","c","e","l","l","e","n","c","e">>,
     <<"S","a","l","e","s"," ","A","n","a","l","y","t","i","c","s">>,
     <<"M","a","r","k","e","t"," ","I","n","t","e","l","l","i","g","e","n","c","e">> >>

BONUS_TERMS ==
  << <<"r","e","v","o","p","s">>, <<"r","e","v","e","n","u","e"," ","o","p","e","r","a","t","i","o","n","s">>, <<"s","t","r","a","t","e","g","y">>, <<"e","n","a","b","l","e","m","e","n","t">>,
     <<"a","n","a","l","y","t","i","c","s">>, <<"i","n","t","e","l","l","i","g","e","n","c","e">>, <<"i","n","s","i","g","h","t","s">>, <<"m","a","r","k","e","t"," ","i","n","t","e","l","l","i","g","e","n","c","e">>,
     <<"g","t","m">> >>

RATE_LIMIT_PER_HOST == 1

----------------------------------------------------------------------------
(* str operations *)

UpperChars == <<"A","B","C","D","E","F","G","H","I","J","K","L","M","N","O","P","Q","R","S","T","U","V","W","X","Y","Z">>
LowerChars == <<"a","b","c","d","e","f","g","h","i","j","k","l","m","n","o","p","q","r","s","t","u","v","w","x","y","z">>

\* the lower-case form of every upper-case letter
LowerMap ==
  [c \in {UpperChars[i] : i \in 1..26} |->
     LowerChars[CHOOSE i \in 1..26 : UpperChars[i] = c]]

LowerChar(c) == IF c \in DOMAIN LowerMap THEN LowerMap[c] ELSE c

\* str.lower()
Lower(s) == [i \in 1..Len(s) |-> LowerChar(s[i])]

\* the substring test `k in s`
Contains(k, s) ==
  \E i \in 0..(Len(s) - Len(k)) : SubSeq(s, i + 1, i + Len(k)) = k

\* k.lower() for k in ROLE_KEYWORDS
RoleKeywordsLower == [j \in 1..Len(ROLE_KEYWORDS) |-> Lower(ROLE_KEYWORDS[j])]

\* any(k.lower() in title.lower() for k in ROLE_KEYWORDS)
MatchesRole(title) ==
  LET title_l == Lower(title)
  IN \E j \in 1..Len(RoleKeywordsLower) :
        Contains(RoleKeywordsLower[j], title_l)

\* Python truthiness of a str / the `a or b` idiom on str values
OrElse(a, b) == IF a # <<>> THEN a ELSE b

----------------------------------------------------------------------------
(* URLs *)

GH_HOST == << <<"b","o","a","r","d","s">>, <<"g","r","e","e","n","h","o","u","s","e">>, <<"i","o">> >>
LEVER_HOST == << <<"j","o","b","s">>, <<"l","e","v","e","r">>, <<"c","o">> >>
LEVER_API_HOST == << <<"a","p","i">>, <<"l","e","v","e","r">>, <<"c","o">> >>

LowerHost(h) == [i \in 1..Len(h) |-> Lower(h[i])]

\* GH_RE.match(url): scheme://boards.greenhouse.io/<slug>, case-insensitive
GH_RE(url) ==
  /\ LowerHost(url.host) = GH_HOST
  /\ Len(url.path) >= 1
  /\ url.path[1] # <<>>

\* LEVER_RE.match(url)
LEVER_RE(url) ==
  /\ LowerHost(url.host) = LEVER_HOST
  /\ Len(url.path) >= 1
  /\ url.path[1] # <<>>

\* m.group(1) of either pattern
Slug(url) == url.path[1]

\* the Lever public postings endpoint for a company
ApiUrl(company) ==
  [host |-> LEVER_API_HOST, path |-> << <<"v","0">>, <<"p","o","s","t","i","n","g","s">>, company >>]

\* httpx URL.join(href) for a relative reference
UrlJoin(base, ref) == [host |-> base.host, path |-> ref.path]

normalize_company_from_url(url) ==
  IF GH_RE(url) THEN Slug(url)
  ELSE IF LEVER_RE(url) THEN Slug(url)
  ELSE IF Len(url.host) >= 2 THEN url.host[Len(url.host) - 1]
  ELSE <<>>

----------------------------------------------------------------------------
(* Post-processing: score, dedupe *)

\* number of entries of `terms` that occur in title_l
CountHits(terms, title_l) ==
  Cardinality({n \in 1..Len(terms) : Contains(terms[n], title_l)})

Min(a, b) == IF a <= b THEN a ELSE b
Max(a, b) == IF a >= b THEN a ELSE b

heuristic_score(job) ==
  LET title_l == Lower(job.title)
      score == 20 * CountHits(RoleKeywordsLower, title_l)
               + 5 * CountHits(BONUS_TERMS, title_l)
               + (IF job.source \in {"greenhouse", "lever"} THEN 5 ELSE 0)
  IN Min(score, 100)

\* a dedupe key that compares titles as written
DedupeKey_CaseSensitive(p) ==
  << p.title,
     Lower(OrElse(p.company, normalize_company_from_url(p.url))),
     Lower(p.location) >>

\* the key dedupe computes for a posting
DedupeKey(p) ==
  << Lower(p.title),
     Lower(OrElse(p.company, normalize_company_from_url(p.url))),
     Lower(p.location) >>

RECURSIVE DedupeKept(_, _)
\* the indices of posts[1..n] that dedupe's loop appends to `unique`
DedupeKept(posts, n) ==
  IF n = 0 THEN <<>>
  ELSE LET kept == DedupeKept(posts, n - 1)
           seen == {DedupeKey(posts[kept[i]]) : i \in 1..Len(kept)}
       IN IF DedupeKey(posts[n]) \notin seen
          THEN Append(kept, n)
          ELSE kept

dedupe(posts) ==
  LET kept == DedupeKept(posts, Len(posts))
  IN [i \in 1..Len(kept) |-> posts[kept[i]]]

----------------------------------------------------------------------------
(* Data model *)

\* JobPosting(...): captured_at takes the dataclass default `cap` unless
\* given, match_score defaults to 0
JobPosting(title, company, location, url, source, posted_at, cap) ==
  [title |-> title, company |-> company, location |-> location,
   url |-> url, source |-> source, posted_at |-> posted_at,
   captured_at |-> cap, match_score |-> 0]

----------------------------------------------------------------------------
(* Persistence *)

\* the row INSERT builds from a posting; id is the AUTOINCREMENT key
Row(id, p) ==
  [id |-> id, title |-> p.title,
   company |-> OrElse(p.company, normalize_company_from_url(p.url)),
   location |-> p.location, url |-> p.url, source |-> p.source,
   posted_at |-> p.posted_at, captured_at |-> p.captured_at,
   match_score |-> p.match_score]

\* INSERT OR REPLACE: the conflicting row is deleted, the new one appended
InsertOrReplace(table, p) ==
  LET Other(r) == r.url # p.url
      rest == SelectSeq(table, Other)
  IN [jobs |-> Append(rest, Row(Len(table) + 1, p)), rowcount |-> 1]

\* an upsert that overwrites the conflicting row in place
InsertOrUpdate(table, p) ==
  IF \E i \in 1..Len(table) : table[i].url = p.url
  THEN [jobs |-> [i \in 1..Len(table) |->
                    IF table[i].url = p.url THEN Row(i, p) ELSE table[i]],
        rowcount |-> 1]
  ELSE [jobs |-> Append(table, Row(Len(table) + 1, p)), rowcount |-> 1]

\* INSERT OR IGNORE of one posting against the UNIQUE(url) constraint;
\* the result is the table and cur.rowcount
InsertOrIgnore(table, p) ==
  IF \E i \in 1..Len(table) : table[i].url = p.url
  THEN [jobs |-> table, rowcount |-> 0]
  ELSE [jobs |-> Append(table, Row(Len(table) + 1, p)), rowcount |-> 1]

RECURSIVE UpsertLoop_CountsAll(_, _, _)
\* the loop with `inserted += 1` outside the rowcount test
UpsertLoop_CountsAll(table, posts, n) ==
  IF n = 0 THEN [jobs |-> table, inserted |-> 0]
  ELSE LET before == UpsertLoop_CountsAll(table, posts, n - 1)
           step == InsertOrIgnore(before.jobs, posts[n])
       IN [jobs |-> step.jobs, inserted |-> before.inserted + 1]

RECURSIVE UpsertLoop(_, _, _)
\* the state of upsert_jobs' loop after posts[1..n]
UpsertLoop(table, posts, n) ==
  IF n = 0 THEN [jobs |-> table, inserted |-> 0]
  ELSE LET before == UpsertLoop(table, posts, n - 1)
           step == InsertOrIgnore(before.jobs, posts[n])
       IN [jobs |-> step.jobs,
           inserted |-> before.inserted + (IF step.rowcount # 0 THEN 1 ELSE 0)]

upsert_jobs(table, posts) == UpsertLoop(table, posts, Len(posts))

\* the rows export_csv writes (their order in the file is not modelled)
export_csv(table) ==
  {[title |-> table[i].title, company |-> table[i].company,
    location |-> table[i].location, url |-> table[i].url,
    source |-> table[i].source, posted_at |-> table[i].posted_at,
    captured_at |-> table[i].captured_at,
    match_score |-> table[i].match_score] : i \in 1..Len(table)}

----------------------------------------------------------------------------
(* The pages the scanner can be pointed at *)

Url(host, path) == [host |-> host, path |-> path]

\* a Greenhouse board, a Lever board, and a page no board pattern matches
U_GH == Url(GH_HOST, << <<"a","c","m","e">> >>)
U_LEVER == Url(LEVER_HOST, << <<"a","c","m","e">> >>)
U_GEN == Url(LEVER_HOST, <<>>)
P_GH1 == Url(GH_HOST, << <<"a","c","m","e">>, <<"1">> >>)

SearchHits == {U_GH, U_LEVER, U_GEN}

\* a selected element: its stripped text, its href attribute (absent, or
\* absolute, or relative = empty host) and the text of the location label
\* found near it
Elem(text, href, loc) == [text |-> text, href |-> href, loc |-> loc]

\* a record of the Lever postings API
Item(text, hostedUrl, applyUrl, location, createdAt) ==
  [text |-> text, hostedUrl |-> hostedUrl, applyUrl |-> applyUrl,
   location |-> location, createdAt |-> createdAt]

\* the elements the parser's selector finds in the page served at `req`
PageElems(req) ==
  IF req = U_GH THEN
    << Elem(<<"R","e","v","O","p","s">>, << P_GH1 >>, <<"R","e","m","o","t","e">>),
       Elem(<<"E","n","g","i","n","e","e","r">>, << Url(<<>>, << <<"a","c","m","e">>, <<"2">> >>) >>, <<>>),
       Elem(<<"R","e","v","O","p","s">>, <<>>, <<>>) >>
  ELSE IF req = U_LEVER THEN
    << Elem(<<"G","T","M"," ","S","t","r","a","t","e","g","y">>, << Url(<<>>, << <<"a","c","m","e">>, <<"9">> >>) >>, <<>>),
       Elem(<<"A","b","o","u","t">>, << Url(GH_HOST, <<>>) >>, <<>>) >>
  ELSE IF req = U_GEN THEN
    << Elem(<<"G","T","M"," ","S","t","r","a","t","e","g","y">>, <<>>, <<>>),
       Elem(<<"S","a","l","e","s"," ","A","n","a","l","y","t","i","c","s">>, <<>>, <<>>),
       Elem(<<"R","e","v","O","p","s">>, << P_GH1 >>, <<>>),
       Elem(<<"C","o","n","t","a","c","t">>, << Url(<<>>, << <<"c","o","n","t","a","c","t">> >>) >>, <<>>) >>
  ELSE <<>>

\* the list the Lever postings API serves at `req`
PageJson(req) ==
  IF req = ApiUrl(<<"a","c","m","e">>) THEN
    << Item(<<" ","R","E","V","O","P","S"," ">>, << Url(LEVER_HOST, << <<"a","c","m","e">>, <<"1">> >>) >>, <<>>,
            <<"r","e","m","o","t","e">>, << 3000 >>),
       Item(<<"R","e","c","r","u","i","t","e","r">>, <<>>, <<>>, <<>>, <<>>) >>
  ELSE <<>>

----------------------------------------------------------------------------
(* Parsers *)

RECURSIVE LStrip(_)
LStrip(s) == IF s # <<>> /\ Head(s) = " " THEN LStrip(Tail(s)) ELSE s
RECURSIVE RStrip(_)
RStrip(s) ==
  IF s # <<>> /\ s[Len(s)] = " " THEN RStrip(SubSeq(s, 1, Len(s) - 1)) ELSE s
\* str.strip()
Strip(s) == RStrip(LStrip(s))

\* href if href.startswith("http") else resp.request.url.join(href)
FullUrl(base, ref) == IF ref.host # <<>> THEN ref ELSE UrlJoin(base, ref)

\* the body of parse_greenhouse after a successful fetch of `url`
parse_greenhouse(url, cap) ==
  LET company == IF GH_RE(url) THEN Slug(url) ELSE <<>>
      Usable(e) == e.href # <<>> /\ e.text # <<>>
      jobs_ == SelectSeq(PageElems(url), Usable)
  IN [i \in 1..Len(jobs_) |->
        JobPosting(jobs_[i].text, company, jobs_[i].loc,
                   FullUrl(url, jobs_[i].href[1]), "greenhouse", <<>>, cap)]

\* the postings parse_lever builds from the API's JSON list
parse_lever_json(url, company, cap) ==
  LET data == PageJson(ApiUrl(company))
  IN [i \in 1..Len(data) |->
        LET item == data[i]
            lever_url == IF item.hostedUrl # <<>> THEN item.hostedUrl[1]
                         ELSE IF item.applyUrl # <<>> THEN item.applyUrl[1]
                         ELSE url
            posted_iso == IF item.createdAt # <<>>
                          THEN << item.createdAt[1] \div 1000 >>
                          ELSE <<>>
        IN JobPosting(Strip(item.text), company, item.location, lever_url,
                      "lever", posted_iso, cap)]

\* the HTML fallback of parse_lever after a successful fetch of `url`
parse_lever_html(url, cap) ==
  LET company == IF LEVER_RE(url) THEN Slug(url) ELSE <<>>
      HasText(e) == e.href # <<>> /\ e.text # <<>>
      as == SelectSeq(PageElems(url), HasText)
  IN [i \in 1..Len(as) |->
        JobPosting(as[i].text, company, <<>>, as[i].href[1], "lever-html",
                   <<>>, cap)]

\* the body of parse_generic after a successful fetch of `url`
parse_generic(url, cap) ==
  LET Wanted(e) == e.text # <<>> /\ MatchesRole(e.text)
      nodes == SelectSeq(PageElems(url), Wanted)
  IN [i \in 1..Len(nodes) |->
        JobPosting(nodes[i].text, <<>>, <<>>,
                   IF nodes[i].href # <<>>
                   THEN FullUrl(url, nodes[i].href[1]) ELSE url,
                   "generic", <<>>, cap)]

\* parse_url's choice of parser
Parser(url) ==
  IF GH_RE(url) THEN "greenhouse"
  ELSE IF LEVER_RE(url) THEN "lever"
  ELSE "generic"

----------------------------------------------------------------------------
(* run_scan's post-processing of the gathered results *)

RECURSIVE Flatten(_, _)
\* [p for lst in results[1..n] for p in lst]
Flatten(lists, n) ==
  IF n = 0 THEN <<>> ELSE Flatten(lists, n - 1) \o lists[n]

\* the loop without its keyword test
FilterAndScore_NoFilter(flat) ==
  [i \in 1..Len(flat) |->
     LET named == [flat[i] EXCEPT
                     !.company = OrElse(flat[i].company,
                                 normalize_company_from_url(flat[i].url))]
     IN [named EXCEPT !.match_score = heuristic_score(named)]]

\* the filter-and-score loop of run_scan
FilterAndScore(flat) ==
  LET Keep(p) == MatchesRole(p.title)
      kept == SelectSeq(flat, Keep)
  IN [i \in 1..Len(kept) |->
        LET named == [kept[i] EXCEPT
                        !.company = OrElse(kept[i].company,
                                    normalize_company_from_url(kept[i].url))]
        IN [named EXCEPT !.match_score = heuristic_score(named)]]

----------------------------------------------------------------------------
(* State *)

VARIABLES
  now,                 \* time.time() / utcnow(), in seconds
  default_captured_at, \* the default of JobPosting.captured_at
  host_last_hit,       \* _host_last_hit (an absent host reads as 0)
  run,                 \* how many times the script has been started
  pcScan,              \* where run_scan is: init, gather, done, raised
  discovered,          \* the list discover_urls returned
  task,                \* the coroutines in flight, one record each
  results,             \* gather's result slots, <<>> while a task runs
  jobs,                \* the jobs table of jobs.db, in rowid order
  csv,                 \* the rows of jobs.csv
  ret,                 \* what run_scan returned, with the list it persisted
  calls,               \* SpecSeq: the polite_get calls made, with times
  libOp,               \* SpecLib: the function called last
  libPosts,            \* SpecLib: its argument
  libOut,              \* SpecLib: the list dedupe returned
  libInserted,         \* SpecLib: the count upsert_jobs returned
  libCalls,            \* SpecLib: number of calls made
  libRepeat            \* SpecLib: the last two calls were the same call

vars == << now, default_captured_at, host_last_hit, run, pcScan, discovered,
           task, results, jobs, csv, ret, calls,
           libOp, libPosts, libOut, libInserted, libCalls, libRepeat >>

libVars == << libOp, libPosts, libOut, libInserted, libCalls, libRepeat >>

\* every host a request can go to
Hosts == {GH_HOST, LEVER_HOST, LEVER_API_HOST}

\* the clock's value when the r-th process imports the module (far enough
\* from 0 that the first request to a host never waits)
Epoch(r) == r * (RATE_LIMIT_PER_HOST + MaxTicks + 1)

\* the lists without repetition of at most n members of S
ListsUpTo(S, n) ==
  {l \in UNION {[1..k -> S] : k \in 0..n} :
     \A i, j \in 1..Len(l) : i # j => l[i] # l[j]}

\* a coroutine that has not run yet.  `issued` is the time its latest
\* request went out, `hist` the requests it has had answered, `rank` the
\* number of tasks that finished before it
NewTask == [pc |-> "new", stage |-> "none", req |-> U_GH, wake |-> 0,
            issued |-> -1, hist |-> <<>>, rank |-> -1]

----------------------------------------------------------------------------
(* polite_get *)

\* polite_get up to its first suspension, entered for `req` by the
\* coroutine whose record is t: either it sleeps for `wait`, or the request
\* goes out at once
PoliteGetEnter(t, stage, req, last_hit) ==
  LET host == req.host
      last == last_hit[host]
      wait == Max(0, RATE_LIMIT_PER_HOST - (now - last))
  IN [t EXCEPT !.pc = IF wait > 0 THEN "sleep" ELSE "get",
               !.stage = stage, !.req = req, !.wake = now + wait,
               !.issued = IF wait > 0 THEN -1 ELSE now]

\* polite_get resumes from asyncio.sleep: the request goes out
PoliteGetWake(t) == [t EXCEPT !.pc = "get", !.issued = now]

\* _host_last_hit after client.get ended with `outcome`: the assignment
\* is skipped when client.get raised
LastHitAfter(last_hit, host, outcome) ==
  IF outcome = "exception" THEN last_hit
  ELSE [last_hit EXCEPT ![host] = now]

\* polite_get without its `except Exception`
PoliteGetResult_Propagates(outcome) ==
  IF outcome \in {"ok", "undecodable"} THEN "response"
  ELSE IF outcome = "exception" THEN "raise"
  ELSE "none"

\* how polite_get ends: it returns the response (a 200), returns None, or
\* lets an exception out ("raise")
PoliteGetResult(outcome) ==
  IF outcome \in {"ok", "undecodable"} THEN "response" ELSE "none"

\* the outcomes of client.get: a 200 (whose body, for the JSON API, may
\* fail to decode), another status, or an exception (timeout, connection)
Outcomes(stage) ==
  IF stage = "api" THEN {"ok", "undecodable", "status", "exception"}
  ELSE {"ok", "status", "exception"}

----------------------------------------------------------------------------
(* run_scan *)

\* results collected in completion order
StoreResult_FirstFree(slots, i, postings) ==
  LET free == CHOOSE k \in 1..Len(slots) :
                 /\ slots[k] = <<>>
                 /\ \A j \in 1..(k - 1) : slots[j] # <<>>
  IN [slots EXCEPT ![free] = << postings >>]

\* gather stores a finished task's list in the slot of its launch position
StoreResult(slots, i, postings) == [slots EXCEPT ![i] = << postings >>]

\* what the parser of `url` returns once its page fetch has ended with r
ParsePage(url, r, cap) ==
  IF r = "none" THEN <<>>
  ELSE IF Parser(url) = "greenhouse" THEN parse_greenhouse(url, cap)
  ELSE IF Parser(url) = "lever" THEN parse_lever_html(url, cap)
  ELSE parse_generic(url, cap)

\* run_scan up to `await asyncio.gather(*tasks)`
Launch ==
  /\ pcScan = "init"
  /\ \E d \in ListsUpTo(SearchHits, MaxUrls) :
        /\ discovered' = d
        /\ task' = [i \in 1..Len(d) |-> NewTask]
        /\ results' = [i \in 1..Len(d) |-> <<>>]
  /\ pcScan' = "gather"
  /\ UNCHANGED << now, default_captured_at, host_last_hit, run, jobs, csv,
                  ret, calls >>
  /\ UNCHANGED libVars

\* the event loop runs task i for the first time, in launch order:
\* parse_url dispatches and the parser runs into its first polite_get
TaskStart(i) ==
  /\ pcScan = "gather"
  /\ i \in 1..Len(task)
  /\ task[i].pc = "new"
  /\ \A j \in 1..(i - 1) : task[j].pc # "new"
  /\ LET url == discovered[i]
     IN task' = [task EXCEPT ![i] =
                   IF Parser(url) = "lever"
                   THEN PoliteGetEnter(task[i], "api", ApiUrl(Slug(url)),
                                       host_last_hit)
                   ELSE PoliteGetEnter(task[i], "page", url, host_last_hit)]
  /\ UNCHANGED << now, default_captured_at, host_last_hit, run, pcScan,
                  discovered, results, jobs, csv, ret, calls >>
  /\ UNCHANGED libVars

\* every task has run to its first suspension: the loop polls for I/O
AllStarted == \A j \in 1..Len(task) : task[j].pc # "new"

\* asyncio.sleep(wait) of task i is over
Wake(i) ==
  /\ pcScan = "gather"
  /\ AllStarted
  /\ i \in 1..Len(task)
  /\ task[i].pc = "sleep"
  /\ now >= task[i].wake
  /\ task' = [task EXCEPT ![i] = PoliteGetWake(task[i])]
  /\ UNCHANGED << now, default_captured_at, host_last_hit, run, pcScan,
                  discovered, results, jobs, csv, ret, calls >>
  /\ UNCHANGED libVars

\* client.get of task i ends; polite_get returns and the parser runs on,
\* to its end or into the HTML fallback's polite_get
Respond(i, outcome) ==
  /\ pcScan = "gather"
  /\ AllStarted
  /\ i \in 1..Len(task)
  /\ task[i].pc = "get"
  /\ outcome \in Outcomes(task[i].stage)
  /\ LET url == discovered[i]
         hits == LastHitAfter(host_last_hit, task[i].req.host, outcome)
         r == PoliteGetResult(outcome)
         t == [task[i] EXCEPT
                 !.hist = Append(@, [req |-> task[i].req,
                                     outcome |-> outcome])]
         done == [t EXCEPT !.pc = "done",
                    !.rank = Cardinality({j \in 1..Len(task) :
                                             task[j].pc = "done"})]
     IN /\ host_last_hit' = hits
        /\ IF r = "raise"
           THEN \* the exception leaves the parser, the task and gather
                /\ pcScan' = "raised"
                /\ task' = [task EXCEPT ![i] = [t EXCEPT !.pc = "raised"]]
                /\ results' = results
           ELSE IF t.stage = "api" /\ r = "response" /\ outcome = "ok"
           THEN /\ pcScan' = pcScan
                /\ task' = [task EXCEPT ![i] = done]
                /\ results' = StoreResult(results, i,
                     parse_lever_json(url, Slug(url), default_captured_at))
           ELSE IF t.stage = "api"
           THEN /\ pcScan' = pcScan
                /\ task' = [task EXCEPT ![i] =
                              PoliteGetEnter(t, "page", url, hits)]
                /\ results' = results
           ELSE /\ pcScan' = pcScan
                /\ task' = [task EXCEPT ![i] = done]
                /\ results' = StoreResult(results, i,
                                ParsePage(url, r, default_captured_at))
  /\ UNCHANGED << now, default_captured_at, run, discovered, jobs, csv,
                  ret, calls >>
  /\ UNCHANGED libVars

\* gather returns; run_scan flattens, filters, scores, dedupes, persists,
\* exports and returns
Finish ==
  /\ pcScan = "gather"
  /\ \A i \in 1..Len(task) : task[i].pc = "done"
  /\ LET lists == [i \in 1..Len(results) |-> results[i][1]]
         flat == Flatten(lists, Len(lists))
         filtered == FilterAndScore(flat)
         unique == dedupe(filtered)
         up == upsert_jobs(jobs, unique)
     IN /\ jobs' = up.jobs
        /\ csv' = export_csv(up.jobs)
        /\ ret' = [unique |-> unique, matched |-> Len(unique),
                   inserted |-> up.inserted, before |-> Len(jobs)]
  /\ pcScan' = "done"
  /\ UNCHANGED << now, default_captured_at, host_last_hit, run, discovered,
                  task, results, calls >>
  /\ UNCHANGED libVars

\* a second passes while the tasks are in flight (the clock is read
\* nowhere else)
Tick ==
  /\ pcScan = "gather"
  /\ now < Epoch(run) + MaxTicks
  /\ now' = now + 1
  /\ UNCHANGED << default_captured_at, host_last_hit, run, pcScan,
                  discovered, task, results, jobs, csv, ret, calls >>
  /\ UNCHANGED libVars

NoReturn == [unique |-> <<>>, matched |-> 0, inserted |-> 0, before |-> 0]

\* the script is started again, later, against the same jobs.db: the
\* module is imported afresh
NewProcess ==
  /\ pcScan = "done"
  /\ run < MaxRuns
  /\ run' = run + 1
  /\ now' = Epoch(run + 1)
  /\ default_captured_at' = Epoch(run + 1)
  /\ host_last_hit' = [h \in Hosts |-> 0]
  /\ pcScan' = "init"
  /\ discovered' = <<>>
  /\ task' = <<>>
  /\ results' = <<>>
  /\ ret' = NoReturn
  /\ UNCHANGED << jobs, csv, calls >>
  /\ UNCHANGED libVars

\* the module has been imported: the class body of JobPosting has run
Init ==
  /\ now = Epoch(1)
  /\ default_captured_at = Epoch(1)
  /\ host_last_hit = [h \in Hosts |-> 0]
  /\ run = 1
  /\ pcScan = "init"
  /\ discovered = <<>>
  /\ task = <<>>
  /\ results = <<>>
  /\ jobs = <<>>
  /\ csv = {}
  /\ ret = NoReturn
  /\ calls = <<>>
  /\ libOp = "none"
  /\ libPosts = <<>>
  /\ libOut = <<>>
  /\ libInserted = 0
  /\ libCalls = 0
  /\ libRepeat = FALSE

Next ==
  \/ Launch
  \/ \E i \in 1..MaxUrls : TaskStart(i)
  \/ \E i \in 1..MaxUrls : Wake(i)
  \/ \E i \in 1..MaxUrls :
       \E o \in {"ok", "undecodable", "status", "exception"} : Respond(i, o)
  \/ Finish
  \/ Tick
  \/ NewProcess

\* the script run MaxRuns times in a row
Spec == Init /\ [][Next]_vars

----------------------------------------------------------------------------
(* polite_get under a caller that awaits each call before the next *)

\* the URLs the sequential caller asks for
SeqUrls == SearchHits \cup {ApiUrl(<<"a","c","m","e">>)}

\* no call is in progress
Idle == IF task = <<>> THEN TRUE ELSE task[1].pc = "done"

\* the caller awaits polite_get(client, u)
SeqCall(u) ==
  /\ pcScan = "init"
  /\ Idle
  /\ Len(calls) < MaxGets
  /\ LET t == PoliteGetEnter(NewTask, "page", u, host_last_hit)
     IN /\ task' = << t >>
        /\ calls' = Append(calls, [host |-> u.host, started |-> now,
                                   issued |-> t.issued, returned |-> -1,
                                   result |-> "pending"])
  /\ UNCHANGED << now, default_captured_at, host_last_hit, run, pcScan,
                  discovered, results, jobs, csv, ret >>
  /\ UNCHANGED libVars

\* asyncio.sleep(wait) of the call in progress is over
SeqWake ==
  /\ pcScan = "init"
  /\ ~Idle
  /\ task[1].pc = "sleep"
  /\ now >= task[1].wake
  /\ task' = << PoliteGetWake(task[1]) >>
  /\ calls' = [calls EXCEPT ![Len(calls)].issued = now]
  /\ UNCHANGED << now, default_captured_at, host_last_hit, run, pcScan,
                  discovered, results, jobs, csv, ret >>
  /\ UNCHANGED libVars

\* client.get of the call in progress ends and polite_get returns
SeqReturn(outcome) ==
  /\ pcScan = "init"
  /\ ~Idle
  /\ task[1].pc = "get"
  /\ outcome \in Outcomes("page")
  /\ host_last_hit' = LastHitAfter(host_last_hit, task[1].req.host, outcome)
  /\ task' = << [task[1] EXCEPT !.pc = "done"] >>
  /\ calls' = [calls EXCEPT ![Len(calls)].returned = now,
                            ![Len(calls)].result = PoliteGetResult(outcome)]
  /\ UNCHANGED << now, default_captured_at, run, pcScan, discovered,
                  results, jobs, csv, ret >>
  /\ UNCHANGED libVars

\* a second passes
SeqTick ==
  /\ pcScan = "init"
  /\ now < Epoch(run) + MaxTicks
  /\ now' = now + 1
  /\ UNCHANGED << default_captured_at, host_last_hit, run, pcScan,
                  discovered, task, results, jobs, csv, ret, calls >>
  /\ UNCHANGED libVars

NextSeq ==
  \/ \E u \in SeqUrls : SeqCall(u)
  \/ SeqWake
  \/ \E o \in {"ok", "status", "exception"} : SeqReturn(o)
  \/ SeqTick

\* polite_get called MaxGets times, one call after the other
SpecSeq == Init /\ [][NextSeq]_vars

----------------------------------------------------------------------------
(* dedupe and upsert_jobs called directly on arbitrary posting lists *)

BETA_URL == Url(<< <<"w","w","w">>, <<"b","e","t","a">>, <<"c","o","m">> >>, << <<"x">> >>)
ACME_URL == Url(<< <<"w","w","w">>, <<"a","c","m","e">>, <<"c","o","m">> >>, << <<"x">> >>)

\* postings that agree or differ in case, company field, URL and source
LibPostings ==
  { JobPosting(<<"R","e","v","O","p","s">>, <<>>, <<>>, ACME_URL, "generic", <<>>, 1),
    JobPosting(<<"R","E","V","O","P","S">>, <<>>, <<>>, BETA_URL, "greenhouse", <<>>, 2),
    JobPosting(<<"r","e","v","o","p","s">>, <<"A","c","m","e">>, <<>>, BETA_URL, "lever", << 3 >>, 3),
    JobPosting(<<"R","e","v","O","p","s">>, <<"A","C","M","E">>, <<>>, ACME_URL, "lever-html", <<>>, 4) }

LibLists == UNION {[1..k -> LibPostings] : k \in 0..MaxPosts}

\* unique = dedupe(posts)
CallDedupe(posts) ==
  /\ libCalls < MaxCalls
  /\ libOp' = "dedupe"
  /\ libPosts' = posts
  /\ libOut' = dedupe(posts)
  /\ libCalls' = libCalls + 1
  /\ libRepeat' = (libOp = "dedupe" /\ libPosts = posts)
  /\ UNCHANGED << now, default_captured_at, host_last_hit, run, pcScan,
                  discovered, task, results, jobs, csv, ret, calls,
                  libInserted >>

\* inserted = upsert_jobs(posts)
CallUpsert(posts) ==
  /\ libCalls < MaxCalls
  /\ LET up == upsert_jobs(jobs, posts)
     IN /\ jobs' = up.jobs
        /\ libInserted' = up.inserted
  /\ libOp' = "upsert"
  /\ libPosts' = posts
  /\ libCalls' = libCalls + 1
  /\ libRepeat' = (libOp = "upsert" /\ libPosts = posts)
  /\ UNCHANGED << now, default_captured_at, host_last_hit, run, pcScan,
                  discovered, task, results, csv, ret, calls, libOut >>

NextLib ==
  \/ \E posts \in LibLists : CallDedupe(posts)
  \/ \E posts \in LibLists : CallUpsert(posts)

\* MaxCalls calls of dedupe and upsert_jobs on lists of up to MaxPosts
SpecLib == Init /\ [][NextLib]_vars

----------------------------------------------------------------------------
(* Properties *)

\* the distance between two times
Gap(a, b) == IF a >= b THEN a - b ELSE b - a

\* C1: of two polite_get calls to the same host, the second starting only
\* after the first has returned, the second request goes out at least
\* RATE_LIMIT_PER_HOST seconds after the first, whatever the first call's
\* outcome was (200, another status, an exception).
C1_SequentialCallsSpaced ==
  \A a, b \in 1..Len(calls) :
     ( /\ a < b
       /\ calls[a].host = calls[b].host
       /\ calls[a].returned # -1
       /\ calls[b].started >= calls[a].returned
       /\ calls[a].issued # -1
       /\ calls[b].issued # -1 )
     => calls[b].issued - calls[a].issued >= RATE_LIMIT_PER_HOST

\* C8: every posting a parser constructs carries as captured_at the time
\* of its construction, that is, the time of the step that builds it.
C8_CapturedAtConstruction ==
  [][ \A i \in 1..Len(results') :
        ( /\ i <= Len(results)
          /\ results[i] = <<>>
          /\ results'[i] # <<>> )
        => \A k \in 1..Len(results'[i][1]) :
              results'[i][1][k].captured_at = now ]_vars

\* C10: in a scan, no two tasks have sent their requests to the same host
\* less than RATE_LIMIT_PER_HOST seconds apart.
C10_ConcurrentRequestsSpaced ==
  \A i, j \in 1..Len(task) :
     ( /\ i # j
       /\ task[i].issued # -1
       /\ task[j].issued # -1
       /\ task[i].req.host = task[j].req.host )
     => Gap(task[i].issued, task[j].issued) >= RATE_LIMIT_PER_HOST

----------------------------------------------------------------------------
(* Properties of upsert_jobs and dedupe *)

C6_GrowsFirstWriteWins ==
  [][ /\ \A i \in 1..Len(jobs) : i <= Len(jobs') /\ jobs'[i] = jobs[i]
      /\ \A a, b \in 1..Len(jobs') :
            a # b => jobs'[a].url # jobs'[b].url ]_vars

\* an upsert has met a stored url with other field values and left the
\* stored row as it was
C6_Witness ==
  /\ libOp = "upsert"
  /\ \E k \in 1..Len(libPosts) : \E i \in 1..Len(jobs) :
        /\ jobs[i].url = libPosts[k].url
        /\ jobs[i].title # libPosts[k].title
        /\ jobs[i].source # libPosts[k].source

\* the fields the claim compares, case-insensitively
C4_Fields(p) == << Lower(p.title), Lower(p.company), Lower(p.location) >>

\* the key under which the code compares postings: the company field is
\* replaced, when empty, by the company derived from the url
C4_Key(p) ==
  << Lower(p.title),
     Lower(IF p.company = <<>> THEN normalize_company_from_url(p.url)
           ELSE p.company),
     Lower(p.location) >>

\* the positions of `keys` that hold a value for the first time
FirstIdx(keys) ==
  {i \in 1..Len(keys) : \A j \in 1..(i - 1) : keys[j] # keys[i]}

\* the members of posts whose key (keys[i] for posts[i]) occurs for the
\* first time, in order
FirstOccurrences(posts, keys) ==
  LET F == FirstIdx(keys)
  IN [k \in 1..Cardinality(F) |->
        posts[CHOOSE i \in F : Cardinality({j \in F : j < i}) = k - 1]]

\* the keys of a list of postings
C4_Keys(posts) == [i \in 1..Len(posts) |-> C4_Key(posts[i])]

\* C4 as claimed: of the postings of the input that agree, case-
\* insensitively, in title, company field and location, the output holds
\* exactly one, the first of them in the input, whatever their url and
\* source and also when the company field is empty.
C4_SameFieldsKeptOnce ==
  libOp = "dedupe" =>
    \A i, j \in 1..Len(libPosts) :
       (i < j /\ C4_Fields(libPosts[i]) = C4_Fields(libPosts[j])) =>
          LET same == {k \in 1..Len(libOut) :
                          C4_Fields(libOut[k]) = C4_Fields(libPosts[i])}
              first == CHOOSE f \in 1..Len(libPosts) :
                          /\ C4_Fields(libPosts[f]) = C4_Fields(libPosts[i])
                          /\ \A g \in 1..(f - 1) :
                                C4_Fields(libPosts[g]) # C4_Fields(libPosts[i])
          IN /\ Cardinality(same) = 1
             /\ \A k \in same : libOut[k] = libPosts[first]

\* C4 as amended: the output of dedupe is the input restricted, in order,
\* to the postings that are the first with their (title, company field or
\* else company derived from the url, location), compared
\* case-insensitively; so of the postings agreeing in these it holds
\* exactly one, the first.
C4_SameKeyKeptOnce ==
  libOp = "dedupe" =>
    /\ libOut = FirstOccurrences(libPosts, C4_Keys(libPosts))
    /\ \A i \in 1..Len(libPosts) :
          Cardinality({k \in 1..Len(libOut) :
                          C4_Key(libOut[k]) = C4_Key(libPosts[i])}) = 1

\* dedupe has dropped a posting that has the key of an earlier one and
\* differs from it in the case of its title, in its url and in its source
C4_Witness ==
  /\ libOp = "dedupe"
  /\ Len(libOut) < Len(libPosts)
  /\ \E i, j \in 1..Len(libPosts) :
        /\ i < j
        /\ C4_Key(libPosts[i]) = C4_Key(libPosts[j])
        /\ libPosts[i].title # libPosts[j].title
        /\ libPosts[i].url # libPosts[j].url
        /\ libPosts[i].source # libPosts[j].source

----------------------------------------------------------------------------
(* Properties of a scan *)

\* title holds some role keyword as a case-insensitive substring
HasKeyword(title) ==
  \E j \in 1..Len(ROLE_KEYWORDS) :
     \E off \in 0..(Len(title) - Len(ROLE_KEYWORDS[j])) :
        \A n \in 1..Len(ROLE_KEYWORDS[j]) :
           LowerChar(title[off + n]) = LowerChar(ROLE_KEYWORDS[j][n])

\* the list task i returned (empty while it runs)
ResultOf(i) == IF results[i] = <<>> THEN <<>> ELSE results[i][1]

\* C3 as claimed: when the table is empty at the start of run_scan the
\* matched count equals the inserted count; against any table the inserted
\* count is at most the matched count.
C3_MatchedEqualsInserted ==
  pcScan = "done" =>
    /\ ret.inserted <= ret.matched
    /\ ret.before = 0 => ret.matched = ret.inserted

\* C3 as amended: when the table is empty at the start of run_scan the
\* inserted count equals the number of distinct urls among the matched
\* postings; against any table it is at most the matched count.
C3_InsertedCountsUrls ==
  pcScan = "done" =>
    /\ ret.inserted <= ret.matched
    /\ ret.inserted <= Cardinality({ret.unique[k].url :
                                       k \in 1..Len(ret.unique)})
    /\ ret.before = 0 =>
          ret.inserted = Cardinality({ret.unique[k].url :
                                         k \in 1..Len(ret.unique)})

\* a first scan matched two postings of one url and inserted one row
C3_Witness ==
  /\ pcScan = "done"
  /\ ret.before = 0
  /\ ret.inserted > 0
  /\ ret.inserted < ret.matched

\* C5: every row of the jobs table has a title that holds a role keyword
\* as a case-insensitive substring.
C5_StoredTitlesMatch ==
  \A i \in 1..Len(jobs) : HasKeyword(jobs[i].title)

\* a scan whose greenhouse or lever-html parser returned a posting with
\* no keyword in its title has inserted rows
C5_Witness ==
  /\ pcScan = "done"
  /\ ret.inserted > 0
  /\ \E i \in 1..Len(results) : \E k \in 1..Len(ResultOf(i)) :
        /\ ~HasKeyword(ResultOf(i)[k].title)
        /\ ResultOf(i)[k].source \in {"greenhouse", "lever-html"}

\* the last fetch of task i failed: a non-200 status or an exception
FetchFailed(i) ==
  /\ task[i].hist # <<>>
  /\ task[i].hist[Len(task[i].hist)].outcome \in {"status", "exception"}

\* C7: whichever fetches fail, run_scan does not raise, and when it has
\* returned: no task has sent the same request twice, a task whose fetch
\* failed has contributed the empty list, and every keyword-matching
\* posting the other tasks returned is represented in the deduplicated
\* list by a posting with its key whose url is in the table.
C7_FailuresTolerated ==
  /\ pcScan # "raised"
  /\ pcScan = "done" =>
       \A i \in 1..Len(task) :
          /\ \A a, b \in 1..Len(task[i].hist) :
                a # b => task[i].hist[a].req # task[i].hist[b].req
          /\ FetchFailed(i) => ResultOf(i) = <<>>
          /\ \A k \in 1..Len(ResultOf(i)) :
                HasKeyword(ResultOf(i)[k].title) =>
                   \E u \in 1..Len(ret.unique) :
                      /\ C4_Key(ret.unique[u]) = C4_Key(ResultOf(i)[k])
                      /\ \E r \in 1..Len(jobs) :
                            jobs[r].url = ret.unique[u].url

\* a scan in which the fetch of one task ended in an exception has
\* returned and inserted postings another task had parsed
C7_Witness ==
  /\ pcScan = "done"
  /\ ret.inserted > 0
  /\ \E i, j \in 1..Len(task) :
        /\ i # j
        /\ FetchFailed(i)
        /\ \E a \in 1..Len(task[i].hist) :
              task[i].hist[a].outcome = "exception"
        /\ ~FetchFailed(j)
        /\ ResultOf(j) # <<>>

\* what the parser of the i-th URL returns given the outcomes task i met
ExpectedOf(i) ==
  LET url == discovered[i]
      h == task[i].hist
      last == h[Len(h)].outcome
  IN IF Parser(url) = "lever" /\ h[1].outcome = "ok"
     THEN parse_lever_json(url, Slug(url), default_captured_at)
     ELSE IF last = "ok"
     THEN ParsePage(url, "response", default_captured_at)
     ELSE <<>>

\* C9: the list run_scan persists and the rows it inserts are determined
\* by the URL list and the outcome of each fetch, whatever the order in
\* which the tasks finished: the list is the matching postings taken in
\* launch order and restricted to the first of each dedupe key, and the
\* rows inserted are those of the first posting of each new url.
C9_LaunchOrderDecides ==
  pcScan = "done" =>
    LET lists == [i \in 1..Len(discovered) |-> ExpectedOf(i)]
        matching == FilterAndScore(Flatten(lists, Len(lists)))
        Fresh(p) == \A r \in 1..ret.before : jobs[r].url # p.url
        new == SelectSeq(ret.unique, Fresh)
        fresh == FirstOccurrences(new, [k \in 1..Len(new) |-> new[k].url])
    IN /\ ret.unique = FirstOccurrences(matching, C4_Keys(matching))
       /\ Len(jobs) = ret.before + Len(fresh)
       /\ \A k \in 1..Len(fresh) :
             jobs[ret.before + k] = Row(ret.before + k, fresh[k])

\* a scan whose second task finished before its first has returned, and
\* a posting of the later URL lost to one of the earlier URL, on the
\* dedupe key or on the url
C9_Witness ==
  /\ pcScan = "done"
  /\ Len(task) >= 2
  /\ task[2].rank < task[1].rank
  /\ \E k \in 1..Len(ResultOf(2)) : \E u \in 1..Len(ret.unique) :
        /\ HasKeyword(ResultOf(2)[k].title)
        /\ \E m \in 1..Len(ResultOf(1)) :
              /\ ret.unique[u].title = ResultOf(1)[m].title
              /\ ret.unique[u].url = ResultOf(1)[m].url
        /\ \/ /\ C4_Key(ret.unique[u]) = C4_Key(ResultOf(2)[k])
              /\ ret.unique[u].url # ResultOf(2)[k].url
           \/ /\ ret.unique[u].url = ResultOf(2)[k].url
              /\ ret.unique[u].title # ResultOf(2)[k].title
              /\ \E r \in (ret.before + 1)..Len(jobs) :
                    jobs[r].url = ret.unique[u].url /\
                    jobs[r].title = ret.unique[u].title

====
